---- MODULE Spec2Model ----
(***************************************************************************)
(* Model of the parabola-swisseph batch executor (parabola_wrapper.cpp):   *)
(* the singleton ThreadPool (resize, enqueue, worker_loop, destructor),    *)
(* the once-guarded initialisation of the ephemeris routine, and           *)
(* compute_batch with its slicing and order-preserving merge.              *)
(*                                                                         *)
(* Caller threads are the application threads that call the public API;   *)
(* worker threads are the std::thread objects held in ThreadPool::workers. *)
(* Code that runs with queue_mutex held from start to end of a step is one *)
(* atomic action; resize keeps the mutex over several steps (it joins the  *)
(* workers while holding it), so the mutex owner is explicit state.        *)
(***************************************************************************)
EXTENDS Integers, Sequences, FiniteSets, TLC

\* ---------------------------------------------------------------- bounds
\* API calls the application threads make in all
MaxCalls == 2
\* requests the application threads submit in all, over all their batches
MaxRequests == 101
\* Widths of int and of size_t in the model of read_swe_file, in bits: int
\* is the narrower of the two and signed, size_t unsigned, as in the build
\* (32 and 64 there).
IntBits == 4
SizeBits == 6

\* ------------------------------------------------------ program constants
min_batch_size == 10
max_batch_size == 100
\* create_test_workload(count = 1000): count timestamps, ten planets each
test_workload_count == 1000

\* The application threads: the one that runs main() (and, at exit, the
\* static destructors) and a second one.
MainThread == "main"
Callers == {MainThread, "other"}
\* who calls what: either thread initialises the routine and computes
\* batches; the main thread is the one that tunes, as main() does, and the
\* second thread the one that sizes the pool with initialize
Tuners == {MainThread}
Sizers == {"other"}
Paths == {"ephe", "missing"}
\* std::thread::hardware_concurrency() on the platform (0: not computable)
HardwareConcurrency == {0, 1}
\* thread_count arguments of initialize (0: use hardware_concurrency()); a
\* pool of one worker is the one the constructor builds where
\* hardware_concurrency() is 1
ThreadCounts == {0, 2}
\* max_threads arguments of autotune_threads (0: twice hardware_concurrency())
MaxThreadArgs == {0, 1, 2}
\* throughputs a tuning trial can measure, in planets/sec
Throughputs == {100, 104}
\* batch lengths: empty; 15 (one slice for one worker, the clamp to the
\* minimum for two); 101 (the clamp to the maximum for one worker, an uneven
\* split for two)
BatchSizes == {0, 15, 101}

Min(a, b) == IF a < b THEN a ELSE b
Max(a, b) == IF a > b THEN a ELSE b

\* ------------------------------------------------------------ data model
\* SE_SUN .. SE_PLUTO
Planets == 0 .. 9
PlanetRequest(jd, ipl) == [jd |-> jd, ipl |-> ipl]

\* A batch of n requests at one timestamp spanning the ten planets; each
\* block of ten is rotated by one so that no two slices look alike.
MakeBatch(n) ==
  [i \in 1 .. n |-> PlanetRequest(0, ((i - 1) + ((i - 1) \div 10)) % 10)]

\* an identifier that names no body
InvalidPlanet == -1

\* The batch of 15 with an invalid target as its 12th request.
BadBatch == [MakeBatch(15) EXCEPT ![12] = PlanetRequest(0, InvalidPlanet)]

\* the batches the application submits
Batches == {MakeBatch(n) : n \in BatchSizes} \cup {BadBatch}

\* swe_calc_ut: the return code of the external routine; negative for a body
\* it does not know.
swe_calc_ut(req) == IF req.ipl \in Planets THEN 0 ELSE -1

\* The validation probe in initialize_swiss_ephemeris succeeds when the data
\* path holds the ephemeris files.
ProbeOk(path) == path = "ephe"

\* a worker that holds no task
NoTask == 0

VARIABLES
  hw,              \* std::thread::hardware_concurrency() on this platform
  swevid,          \* swevid_loader.cpp: the mapped file (swevid_data,
                   \* swevid_size) and the last call of read_swe_file
  init_flag,       \* std::once_flag: "clear", "running", "set"
  is_initialized,  \* std::atomic<bool>
  ephe_path,       \* static std::string
  pool,            \* lifetime of the static ThreadPool inside instance()
  workers,         \* ThreadPool::workers, one record per std::thread
  tasks,           \* ThreadPool::tasks: the queued closures, each naming
                   \* its packaged_task
  queue_mutex,     \* "free", else the caller that holds it
  stop,            \* ThreadPool::stop
  promise,         \* every packaged_task created so far: the slice its
                   \* lambda captured and the shared state of its future
  call,            \* per application thread: position and locals
  swe,             \* the external routine: times closed, compute calls seen
                   \* after a close, compute calls made on a thread that
                   \* had not registered an identity
  bodyRuns,        \* times the call_once body has been entered
  ended,           \* process state: "running", "exited", "crashed"
  g_parabola_thread_count,  \* second variant: the global of line 360
  pools            \* second variant: per application thread, the ThreadPool
                   \* that is a local of the function it is running

vars == <<hw, swevid, init_flag, is_initialized, ephe_path, pool, workers, tasks,
          queue_mutex, stop, promise, call, swe, bodyRuns, ended,
          g_parabola_thread_count, pools>>

\* swevid_loader.cpp, lines 10-11: no file mapped, read_swe_file not called.
\* called is whether read_swe_file has been called; offset, length, ret and
\* copied are those of its last call: its arguments, what it returned and
\* the bytes it copied, as <<first, count>> relative to swevid_data (<<>>:
\* nothing copied).
NotLoaded ==
  [data |-> "nullptr", size |-> 0, called |-> FALSE, offset |-> 0,
   length |-> 0, ret |-> 0, copied |-> <<>>]

\* a local ThreadPool that is not alive
NoPool == [workers |-> <<>>, tasks |-> <<>>, stop |-> FALSE, alive |-> FALSE]

IdleCall ==
  [pc |-> "idle", op |-> "none", calls |-> 0, asked |-> 0, outcome |-> "none",
   path |-> "", n |-> 0, ret |-> "", after |-> "",
   batch |-> <<>>, size |-> 0, target |-> 0, i |-> 0,
   num_threads |-> 0, join |-> 0,
   futures |-> <<>>, k |-> 0, merged |-> <<>>, total |-> 0,
   result |-> <<>>,
   max_threads |-> 0, threads |-> 0, best_threads |-> 0,
   best_throughput |-> 0, throughput |-> 0, tuned |-> 0, trials |-> {}]

Init ==
  /\ hw \in HardwareConcurrency
  /\ init_flag = "clear"
  /\ is_initialized = FALSE
  /\ ephe_path = ""
  /\ pool = "none"
  /\ workers = <<>>
  /\ tasks = <<>>
  /\ queue_mutex = "free"
  /\ stop = FALSE
  /\ promise = <<>>
  /\ call = [c \in Callers |-> IdleCall]
  /\ swe = [closed |-> 0, lateCalls |-> 0, unregistered |-> 0]
  /\ bodyRuns = 0
  /\ ended = "running"
  /\ swevid = NotLoaded
  /\ g_parabola_thread_count = 1
  /\ pools = [c \in Callers |-> NoPool]

Running == ended = "running"

\* Replace fields of caller c's record.
Upd(c, r) == [call EXCEPT ![c] = r]

\* What thread c keeps when a call of its ends: what it called and with which
\* batch, and the counts of its calls and requests so far.
Keep(r) ==
  [IdleCall EXCEPT !.op = r.op, !.calls = r.calls, !.asked = r.asked,
                   !.batch = r.batch]

\* mutant: a raising call hands back what it had merged so far
Finish_partial(c, r, outcome) ==
  Upd(c, [Keep(r) EXCEPT !.outcome = outcome, !.result = r.merged])

\* A call returns normally or raises: its locals are gone, the thread is idle
\* again and holds the outcome.
Finish(c, r, outcome) == Upd(c, [Keep(r) EXCEPT !.outcome = outcome])

\* compute_batch returns merged.
Return(c, r, merged) ==
  Upd(c, [Keep(r) EXCEPT !.outcome = "returned", !.result = merged])

\* A fresh call by thread c.
Begin(c, op, pc) ==
  [IdleCall EXCEPT !.pc = pc, !.op = op, !.calls = call[c].calls + 1,
                   !.asked = call[c].asked]

initVars == <<init_flag, is_initialized, ephe_path, bodyRuns>>
poolVars == <<pool, workers, tasks, queue_mutex, stop, promise>>
v2Vars == <<g_parabola_thread_count, pools>>
envVars == <<hw, swevid, swe, ended, v2Vars>>

CallsMade == call[MainThread].calls + call["other"].calls
RequestsMade == call[MainThread].asked + call["other"].asked

CanCall(c) == Running /\ call[c].pc = "idle" /\ CallsMade < MaxCalls

\* ------------------------------------------------- condition variable
\* condition.notify_all(): every thread blocked in condition.wait is woken.
notify_all(ws) ==
  [w \in DOMAIN ws |->
     IF ws[w].pc = "waiting" THEN [ws[w] EXCEPT !.pc = "woken"] ELSE ws[w]]

\* condition.notify_one(): the worker sets that can result; one blocked thread
\* (any of them) is woken, and nothing happens when none is blocked.
notify_one(ws) ==
  LET blocked == {w \in DOMAIN ws : ws[w].pc = "waiting"}
  IN IF blocked = {} THEN {ws}
     ELSE {[ws EXCEPT ![w].pc = "woken"] : w \in blocked}

\* ------------------------------------------- initialize_swiss_ephemeris
\* A direct call of initialize_swiss_ephemeris(path), as main() makes.
initialize_swiss_ephemeris(c, path) ==
  /\ CanCall(c)
  /\ call' = Upd(c, [Begin(c, "initialize_swiss_ephemeris", "once")
                       EXCEPT !.path = path])
  /\ UNCHANGED <<initVars, poolVars, envVars>>

\* Where a caller goes when initialize_swiss_ephemeris returns normally: a
\* direct caller is done; initialize goes on (lines 312-318) to default a
\* thread_count of 0 to hardware_concurrency() and to
\* ThreadPool::instance().resize(thread_count).
AfterOnce(r) ==
  IF r.op = "initialize"
    THEN [r EXCEPT !.n = IF r.n = 0 THEN hw ELSE r.n,
                   !.pc = "inst", !.after = "resize"]
    ELSE [Keep(r) EXCEPT !.outcome = "returned"]

\* std::call_once(init_flag, ...): a caller that finds the flag set returns
\* at once; one that finds a call in progress blocks; otherwise it becomes
\* the active caller and runs the body.
call_once_enter(c) ==
  /\ Running
  /\ call[c].pc = "once"
  /\ init_flag # "running"
  /\ IF init_flag = "set"
       THEN /\ call' = Upd(c, AfterOnce(call[c]))
            /\ UNCHANGED <<init_flag, bodyRuns>>
       ELSE /\ init_flag' = "running"
            /\ bodyRuns' = bodyRuns + 1
            /\ call' = Upd(c, [call[c] EXCEPT !.pc = "body"])
  /\ UNCHANGED <<is_initialized, ephe_path, poolVars, envVars>>

\* swe_calc_ut called on a thread: the routine counts the call as
\* unregistered when that thread has not called swe_set_tid_acc.
\* registered is whether it has.
routine_called(registered) ==
  [swe EXCEPT !.lateCalls = IF swe.closed > 0 THEN @ + 1 ELSE @,
              !.unregistered = IF registered THEN @ ELSE @ + 1]

\* The body: store the path, run the validation probe (line 148, a call of
\* swe_calc_ut on the thread that called initialize_swiss_ephemeris, which
\* is an application thread and has called swe_set_tid_acc nowhere).  A
\* failed probe throws out of call_once, which leaves the flag clear (an
\* exceptional call does not count as the one call).
call_once_body(c) ==
  /\ Running
  /\ call[c].pc = "body"
  /\ ephe_path' = call[c].path
  /\ IF ProbeOk(call[c].path)
       THEN /\ is_initialized' = TRUE
            /\ call' = Upd(c, [call[c] EXCEPT !.pc = "once_ret"])
            /\ UNCHANGED init_flag
       ELSE /\ init_flag' = "clear"
            /\ call' = Finish(c, call[c], "Ephemeris initialization failed")
            /\ UNCHANGED is_initialized
  /\ swe' = routine_called(FALSE)
  /\ UNCHANGED <<bodyRuns, poolVars, hw, swevid, ended, v2Vars>>

\* The body returned: call_once sets the flag and returns.
call_once_return(c) ==
  /\ Running
  /\ call[c].pc = "once_ret"
  /\ init_flag' = "set"
  /\ call' = Upd(c, AfterOnce(call[c]))
  /\ UNCHANGED <<is_initialized, ephe_path, bodyRuns, poolVars, envVars>>

\* ------------------------------------------------------------ initialize
initialize(c, path, thread_count) ==
  /\ CanCall(c)
  /\ call' = Upd(c, [Begin(c, "initialize", "once")
                       EXCEPT !.path = path, !.n = thread_count])
  /\ UNCHANGED <<initVars, poolVars, envVars>>

\* ---------------------------------------------------- ThreadPool::instance
\* Where a caller goes once instance() has handed it the pool.
AfterInstance(r) ==
  IF r.after = "resize"
    THEN [r EXCEPT !.pc = "rs_lock", !.num_threads = r.n, !.ret = "return"]
    ELSE IF r.after = "at_resize"
      THEN [r EXCEPT !.pc = "rs_lock", !.num_threads = r.threads,
                     !.ret = "at_enq"]
      ELSE [r EXCEPT !.pc = r.after]

\* The function-local static: the first caller constructs the pool
\* (ThreadPool(hardware_concurrency()) calls resize), callers arriving during
\* the construction block, later callers get the reference.
instance(c) ==
  /\ Running
  /\ call[c].pc = "inst"
  /\ pool \in {"none", "alive", "destroying"}
  /\ IF pool = "none"
       THEN /\ pool' = "constructing"
            /\ call' = Upd(c, [call[c] EXCEPT !.pc = "rs_lock",
                                 !.num_threads = hw, !.ret = "constructed"])
       ELSE /\ call' = Upd(c, AfterInstance(call[c]))
            /\ UNCHANGED pool
  /\ UNCHANGED <<initVars, workers, tasks, queue_mutex, stop, promise, envVars>>

\* ------------------------------------------------------ ThreadPool::resize
\* resize, lines 48-54: default the count, take queue_mutex, raise stop,
\* notify_all.  The lock is a local of resize and is held until it returns.
resize_lock(c) ==
  /\ Running
  /\ call[c].pc = "rs_lock"
  /\ queue_mutex = "free"
  /\ queue_mutex' = c
  /\ stop' = TRUE
  /\ workers' = notify_all(workers)
  /\ call' = Upd(c, [call[c] EXCEPT
                       !.num_threads = IF call[c].num_threads = 0
                                         THEN hw ELSE call[c].num_threads,
                       !.pc = "rs_join", !.join = 1])
  /\ UNCHANGED <<initVars, pool, tasks, promise, envVars>>

\* mutant: the thread is let go (detached) instead of joined
joined_detached(w) == TRUE

\* line 57: worker.join() returns once that thread has left worker_loop.
joined(w) == workers[w].pc = "exited"

\* resize, lines 55-62: join the workers one after the other (join returns
\* when that thread has left worker_loop); then clear the vector and lower
\* stop.
resize_join(c) ==
  /\ Running
  /\ call[c].pc = "rs_join"
  /\ IF call[c].join <= Len(workers)
       THEN /\ joined(call[c].join)
            /\ call' = Upd(c, [call[c] EXCEPT !.join = @ + 1])
            /\ UNCHANGED <<workers, stop>>
       ELSE /\ workers' = <<>>
            /\ stop' = FALSE
            /\ call' = Upd(c, [call[c] EXCEPT !.pc = "rs_spawn"])
  /\ UNCHANGED <<initVars, pool, tasks, queue_mutex, promise, envVars>>

\* A thread just created by resize: it runs the lambda of lines 64-67.
\* threw is the last task of this thread that ended by throwing (0: none).
NewWorker == [pc |-> "start", tid |-> -1, task |-> NoTask, threw |-> 0]

\* What the std::thread constructor in emplace_back (line 64) can do:
\* start the thread, or throw std::system_error when the system has no
\* thread to give.
ThreadCreation == {"started", "std::system_error"}

\* resize left by the exception of a failed thread creation: the unique_lock
\* releases queue_mutex and the exception goes to the caller of resize.
\* autotune_threads catches it (line 232) and returns its best so far;
\* initialize lets it pass.  In the constructor of the static pool it
\* destroys the workers vector: with a thread already in it that is
\* std::terminate, and with none the pool stays unconstructed and the caller
\* of instance() gets the exception (which autotune_threads catches too).
resize_throws(c) ==
  /\ queue_mutex' = "free"
  /\ UNCHANGED workers
  /\ LET r == call[c]
         tuning == r.op = "autotune_threads"
         raised == IF tuning
                     THEN Upd(c, [Keep(r) EXCEPT !.outcome = "returned",
                                                 !.tuned = r.best_threads,
                                                 !.trials = r.trials])
                     ELSE Finish(c, r, "std::system_error")
     IN IF r.ret = "constructed"
          THEN IF workers # <<>>
                 THEN /\ ended' = "crashed"
                      /\ UNCHANGED <<pool, call>>
                 ELSE /\ pool' = "none"
                      /\ call' = raised
                      /\ UNCHANGED ended
          ELSE /\ call' = raised
               /\ UNCHANGED <<pool, ended>>

\* resize, lines 63-69: spawn num_threads workers, then return, which
\* releases queue_mutex.
resize_spawn(c) ==
  /\ Running
  /\ call[c].pc = "rs_spawn"
  /\ IF Len(workers) < call[c].num_threads
       THEN \E created \in ThreadCreation :
              IF created = "started"
                THEN /\ workers' = Append(workers, NewWorker)
                     /\ UNCHANGED <<queue_mutex, pool, call, ended>>
                ELSE resize_throws(c)
       ELSE /\ queue_mutex' = "free"
            /\ UNCHANGED <<workers, ended>>
            /\ IF call[c].ret = "constructed"
                 THEN /\ pool' = "alive"
                      /\ call' = Upd(c, AfterInstance(call[c]))
                 ELSE /\ UNCHANGED pool
                      /\ IF call[c].ret = "at_enq"
                           THEN call' = Upd(c, [call[c] EXCEPT
                                          !.pc = "at_enq", !.i = 0, !.k = 1,
                                          !.futures = <<>>])
                           ELSE call' = Finish(c, call[c], "returned")
  /\ UNCHANGED <<initVars, tasks, stop, promise, hw, swevid, swe, v2Vars>>

\* ------------------------------------------------- ThreadPool::worker_loop
\* The thread's lambda first registers its index with the routine.
worker_start(w) ==
  /\ Running
  /\ w \in DOMAIN workers
  /\ workers[w].pc = "start"
  /\ workers' = [workers EXCEPT ![w].pc = "lock", ![w].tid = w - 1]
  /\ UNCHANGED <<initVars, pool, tasks, queue_mutex, stop, promise, call, envVars>>

\* mutant: the newest task is taken instead of the oldest
take_newest(q) == [task |-> q[Len(q)], rest |-> SubSeq(q, 1, Len(q) - 1)]

\* lines 125-126: task = std::move(tasks.front()); tasks.pop();
take(q) == [task |-> Head(q), rest |-> Tail(q)]

\* worker_loop, lines 120-127, under queue_mutex: wait until stop or a task;
\* leave the loop when stop is set and the queue is empty; else take the
\* front task.  A thread whose predicate is false releases the mutex and
\* blocks in condition.wait; woken (by a notification, or spuriously, which
\* the predicate loop makes indistinguishable) it takes the mutex and tests
\* the predicate again.
worker_take(w) ==
  /\ Running
  /\ w \in DOMAIN workers
  /\ workers[w].pc \in {"lock", "woken"}
  /\ queue_mutex = "free"
  /\ IF ~(stop \/ tasks # <<>>)
       THEN /\ workers' = [workers EXCEPT ![w].pc = "waiting"]
            /\ UNCHANGED tasks
       ELSE IF stop /\ tasks = <<>>
         THEN /\ workers' = [workers EXCEPT ![w].pc = "exited"]
              /\ UNCHANGED tasks
         ELSE /\ workers' = [workers EXCEPT ![w].pc = "run",
                                            ![w].task = take(tasks).task]
              /\ tasks' = take(tasks).rest
  /\ UNCHANGED <<initVars, pool, queue_mutex, stop, promise, call, envVars>>

\* mutant: the slice task gives up at the first request the routine rejects
RECURSIVE SliceResults_abort(_)
SliceResults_abort(slice) ==
  IF slice = <<>> \/ swe_calc_ut(Head(slice)) < 0 THEN <<>>
  ELSE <<[ipl |-> Head(slice).ipl, errcode |-> 0]>>
         \o SliceResults_abort(Tail(slice))

\* The slice task of compute_batch, lines 262-281: one result per request
\* of the slice, in the slice's order, each carrying its own return code.
SliceResults(slice) ==
  [j \in 1 .. Len(slice) |->
     [ipl |-> slice[j].ipl, errcode |-> swe_calc_ut(slice[j])]]

\* How a task can end.  The slice task of compute_batch builds its log
\* strings (lines 271-276) only for a request the routine rejects; it is
\* there that it is taken to be able to run out of memory and throw
\* std::bad_alloc, which the wrapper of lines 76-81 logs and rethrows and the
\* packaged_task stores in the shared state.  Otherwise the task returns its
\* results.  TRUE stands for the throw.
task_outcomes(p) ==
  IF \E j \in DOMAIN p.slice : swe_calc_ut(p.slice[j]) < 0
    THEN {FALSE, TRUE} ELSE {FALSE}

\* mutant: an exception of the task leaves worker_loop and ends the thread
after_task_dies(raised) == IF raised THEN "exited" ELSE "lock"

\* Where the thread goes after task() at line 128: the packaged_task has
\* caught whatever the task threw, so task() returns either way and the
\* while (true) loop takes the mutex again.
after_task(raised) == "lock"

\* worker_loop, line 128: task() runs the packaged_task outside the mutex;
\* its result, or its exception, becomes the shared state the future reads.
worker_run(w) ==
  /\ Running
  /\ w \in DOMAIN workers
  /\ workers[w].pc = "run"
  /\ LET t == workers[w].task
     IN \E raised \in task_outcomes(promise[t]) :
          /\ promise' = [promise EXCEPT ![t] =
                           [@ EXCEPT !.ready = TRUE, !.runs = @ + 1,
                                     !.raised = raised,
                                     !.value = IF raised THEN <<>>
                                               ELSE SliceResults(promise[t].slice)]]
          /\ workers' = [workers EXCEPT ![w].pc = after_task(raised),
                                        ![w].task = NoTask,
                                        ![w].threw = IF raised THEN t ELSE @]
  /\ swe' = routine_called(workers[w].tid >= 0)
  /\ UNCHANGED <<initVars, pool, tasks, queue_mutex, stop, call, hw, swevid, ended,
               v2Vars>>

\* ------------------------------------------------------------ compute_batch
\* ThreadPool::size(): workers.size(), read without queue_mutex.  While a
\* resize is rebuilding the vector (lines 61-68) the read races with the
\* writes and may see any count up to the one being built.
size ==
  LET rebuilding == {d \in Callers : call[d].pc = "rs_spawn"}
  IN IF rebuilding = {} THEN {Len(workers)}
     ELSE UNION {0 .. call[d].num_threads : d \in rebuilding}

\* batch.requests.size() / pool.size(): an integer division, undefined for a
\* pool of size 0.  There the build either traps (-1 stands for the trap) or
\* yields 0.
Divide(n, d) == IF d = 0 THEN {-1, 0} ELSE {n \div d}

\* mutant: the cap of max_batch_size forgotten
target_batch_size_uncapped(quotient) == Max(min_batch_size, quotient)

\* lines 254-256
target_batch_size(quotient) ==
  Min(max_batch_size, Max(min_batch_size, quotient))

\* line 259
slice_end(n, i, target) == Min(n, i + target)

\* mutant: the initialisation check dropped
not_initialized_unchecked == FALSE

\* lines 177 and 244: if (!is_initialized) throw
not_initialized == ~is_initialized

\* compute_batch, lines 244-248: the initialisation check, then instance().
compute_batch(c, batch) ==
  /\ CanCall(c)
  /\ RequestsMade + Len(batch) <= MaxRequests
  /\ LET r == [Begin(c, "compute_batch", "inst") EXCEPT
                 !.batch = batch, !.after = "cb_size",
                 !.asked = @ + Len(batch)]
     IN IF not_initialized
          THEN call' = Finish(c, r, "Swiss Ephemeris not initialized")
          ELSE call' = Upd(c, r)
  /\ UNCHANGED <<initVars, poolVars, envVars>>

\* The loop of lines 258-282 goes on while i < batch.requests.size().
LoopPc(r) == IF r.i < Len(r.batch) THEN "cb_loop" ELSE "cb_merge"

\* lines 254-256: read the pool size and fix the slice size.
compute_batch_size(c) ==
  /\ Running
  /\ call[c].pc = "cb_size"
  /\ \E s \in size : \E q \in Divide(Len(call[c].batch), s) :
       IF q < 0
         THEN /\ ended' = "crashed"
              /\ UNCHANGED call
         ELSE /\ LET r == [call[c] EXCEPT !.size = s, !.i = 0, !.k = 1,
                                          !.target = target_batch_size(q)]
                 IN call' = Upd(c, [r EXCEPT !.pc = LoopPc(r)])
              /\ UNCHANGED ended
  /\ UNCHANGED <<initVars, poolVars, hw, swevid, swe, v2Vars>>

\* enqueue, lines 75-85: a new packaged_task around the slice lambda, and
\* its future.  accepted records whether enqueue went on to queue it.  A
\* tuning task holds requests lo+1 .. hi of the test workload instead.
NewPromise(c, slice, accepted) ==
  [owner |-> c, slice |-> slice, lo |-> 0, hi |-> 0, accepted |-> accepted,
   ready |-> FALSE, runs |-> 0, value |-> <<>>, raised |-> FALSE]

\* mutant: enqueue without the stop test
enqueue_rejects_never == FALSE

\* mutant: enqueue pushes its task without taking queue_mutex
enqueue_locks_unguarded == TRUE

\* enqueue, line 87: the unique_lock on queue_mutex can be taken.
enqueue_locks == queue_mutex = "free"

\* enqueue, line 88: the test made under queue_mutex.
enqueue_rejects == stop

\* mutant: the slice read from the batch of the other thread's call, as if
\* the two calls shared one request buffer
captured_slice_shared(c, lo, hi) ==
  LET d == CHOOSE x \in Callers : x # c
  IN IF Len(call[d].batch) >= hi THEN SubSeq(call[d].batch, lo + 1, hi)
     ELSE SubSeq(call[c].batch, lo + 1, hi)

\* line 260: the slice is a copy of requests lo+1 .. hi of this call's
\* batch, and the task's lambda captures it by value (line 262).
captured_slice(c, lo, hi) == SubSeq(call[c].batch, lo + 1, hi)

\* One turn of the loop of lines 258-282 with its call of enqueue (lines
\* 72-95): copy the slice, make the packaged_task, then under queue_mutex
\* either throw because stop is set or push the task; notify_one; i += target.
compute_batch_enqueue(c) ==
  /\ Running
  /\ call[c].pc = "cb_loop"
  /\ enqueue_locks
  /\ LET r == call[c]
         end == slice_end(Len(r.batch), r.i, r.target)
         slice == captured_slice(c, r.i, end)
         id == Len(promise) + 1
     IN IF enqueue_rejects
          THEN /\ promise' = Append(promise, NewPromise(c, slice, FALSE))
               /\ call' = Finish(c, r, "Enqueue on stopped ThreadPool")
               /\ UNCHANGED <<tasks, workers>>
          ELSE /\ promise' = Append(promise, NewPromise(c, slice, TRUE))
               /\ tasks' = Append(tasks, id)
               /\ workers' \in notify_one(workers)
               /\ LET r2 == [r EXCEPT !.futures = Append(@, id),
                                      !.i = @ + r.target]
                  IN call' = Upd(c, [r2 EXCEPT !.pc = LoopPc(r2)])
  /\ UNCHANGED <<initVars, pool, queue_mutex, stop, envVars>>

\* mutant: a slice's results put in front of merged
merge_insert_front(merged, results) == results \o merged

\* mutant: the first result of every slice lost in the move
merge_insert_lossy(merged, results) ==
  merged \o SubSeq(results, 2, Len(results))

\* lines 288-290: append a slice's results to merged.
merge_insert(merged, results) == merged \o results

\* line 294
count_mismatch(total_results, n) == total_results # n

\* lines 284-302: get the futures in submission order (get rethrows what the
\* task threw, and merged is then gone with the other locals), then the
\* count check.
compute_batch_merge(c) ==
  /\ Running
  /\ call[c].pc = "cb_merge"
  /\ LET r == call[c]
     IN IF r.k <= Len(r.futures)
          THEN /\ promise[r.futures[r.k]].ready
               /\ LET v == promise[r.futures[r.k]].value
                  IN IF promise[r.futures[r.k]].raised
                       THEN call' = Finish(c, r, "std::bad_alloc")
                       ELSE call' = Upd(c, [r EXCEPT
                                              !.merged = merge_insert(@, v),
                                              !.total = @ + Len(v),
                                              !.k = @ + 1])
          ELSE IF count_mismatch(r.total, Len(r.batch))
            THEN call' = Finish(c, r, "Result count mismatch")
            ELSE call' = Return(c, r, r.merged)
  /\ UNCHANGED <<initVars, poolVars, envVars>>

\* --------------------------------------------------------- autotune_threads
\* test_workload.size()
test_workload_size == test_workload_count * Cardinality(Planets)

\* line 191: the next thread count to try
next_threads(threads) == IF threads < 4 THEN threads + 1 ELSE threads * 2

\* line 199
tune_slice_size(threads) == Max(1, test_workload_size \div threads)

\* mutant: any gain makes the candidate the best, and nothing else does
select_best_any_gain(r, throughput) ==
  IF throughput > r.best_throughput
    THEN [r EXCEPT !.best_throughput = throughput, !.best_threads = r.threads]
    ELSE r

\* lines 226-231: the best thread count and throughput after a trial
select_best(r, throughput) ==
  IF throughput * 100 > r.best_throughput * 105
    THEN [r EXCEPT !.best_throughput = throughput, !.best_threads = r.threads]
    ELSE IF r.threads > r.best_threads
            /\ throughput * 100 >= r.best_throughput * 95
      THEN [r EXCEPT !.best_threads = r.threads]
      ELSE r

\* mutant: the loop variable returned in place of best_threads
TuneReturn_last(c, r) ==
  Upd(c, [Keep(r) EXCEPT !.outcome = "returned", !.tuned = r.threads,
                         !.trials = r.trials])

\* lines 237-239: return best_threads
TuneReturn(c, r) ==
  Upd(c, [Keep(r) EXCEPT !.outcome = "returned", !.tuned = r.best_threads,
                         !.trials = r.trials])

\* line 191, the loop test: another trial (instance(), then resize(threads))
\* or the return.
TuneLoop(c, r) ==
  IF r.threads <= r.max_threads
    THEN Upd(c, [r EXCEPT !.pc = "inst", !.after = "at_resize",
                          !.trials = @ \cup {r.threads}])
    ELSE TuneReturn(c, r)

\* autotune_threads, lines 176-191: the initialisation check, the ceiling
\* (twice hardware_concurrency() when 0 is passed), the first loop test.
autotune_threads(c, max_threads) ==
  /\ CanCall(c)
  /\ LET r == [Begin(c, "autotune_threads", "at_loop") EXCEPT
                 !.max_threads = IF max_threads = 0 THEN hw * 2 ELSE max_threads,
                 !.threads = 1, !.best_threads = 1, !.best_throughput = 0]
     IN IF not_initialized
          THEN call' = Finish(c, r, "Swiss Ephemeris not initialized")
          ELSE call' = TuneLoop(c, r)
  /\ UNCHANGED <<initVars, poolVars, envVars>>

\* lines 199-214: one turn of the slicing loop with its enqueue.  An enqueue
\* that throws is caught at line 232 and ends the tuning loop.
autotune_enqueue(c) ==
  /\ Running
  /\ call[c].pc = "at_enq"
  /\ enqueue_locks
  /\ LET r == call[c]
         end == Min(test_workload_size, r.i + tune_slice_size(r.threads))
         id == Len(promise) + 1
         t == [NewPromise(c, <<>>, ~enqueue_rejects) EXCEPT !.lo = r.i, !.hi = end]
     IN /\ promise' = Append(promise, t)
        /\ IF enqueue_rejects
             THEN /\ call' = TuneReturn(c, r)
                  /\ UNCHANGED <<tasks, workers>>
             ELSE /\ tasks' = Append(tasks, id)
                  /\ workers' \in notify_one(workers)
                  /\ LET r2 == [r EXCEPT !.futures = Append(@, id), !.i = end]
                     IN call' = Upd(c, [r2 EXCEPT !.pc =
                                   IF r2.i < test_workload_size
                                     THEN "at_enq" ELSE "at_get"])
  /\ UNCHANGED <<initVars, pool, queue_mutex, stop, envVars>>

\* lines 216-231 and the loop step of line 191: get every future, measure
\* the throughput, update the best, go to the next thread count.
autotune_get(c) ==
  /\ Running
  /\ call[c].pc = "at_get"
  /\ LET r == call[c]
     IN IF r.k <= Len(r.futures)
          THEN /\ promise[r.futures[r.k]].ready
               /\ call' = Upd(c, [r EXCEPT !.k = @ + 1])
          ELSE \E throughput \in Throughputs :
                 call' = TuneLoop(c, [select_best(r, throughput) EXCEPT
                                        !.throughput = throughput,
                                        !.threads = next_threads(r.threads)])
  /\ UNCHANGED <<initVars, poolVars, envVars>>

\* ------------------------------------------------- ThreadPool::~ThreadPool
\* The main thread leaves main(): the process exits, and if the static pool
\* was constructed its destructor runs.
exit(c) ==
  /\ Running
  /\ c = MainThread
  /\ call[c].pc = "idle"
  /\ pool \in {"none", "alive"}
  /\ IF pool = "none"
       THEN /\ ended' = "exited"
            /\ UNCHANGED <<pool, call>>
       ELSE /\ pool' = "destroying"
            /\ call' = Upd(c, [Keep(call[c]) EXCEPT !.op = "exit",
                                                    !.pc = "dt_stop"])
            /\ UNCHANGED ended
  /\ UNCHANGED <<initVars, workers, tasks, queue_mutex, stop, promise, hw, swevid, swe,
               v2Vars>>

\* lines 98-102: set stop under queue_mutex, then notify_all.
destructor_stop(c) ==
  /\ Running
  /\ call[c].pc = "dt_stop"
  /\ queue_mutex = "free"
  /\ stop' = TRUE
  /\ workers' = notify_all(workers)
  /\ call' = Upd(c, [call[c] EXCEPT !.pc = "dt_join", !.join = 1])
  /\ UNCHANGED <<initVars, pool, tasks, queue_mutex, promise, envVars>>

\* lines 103-108: join every worker, then swe_close(); the process is gone
\* after its last static destructor.
destructor_join(c) ==
  /\ Running
  /\ call[c].pc = "dt_join"
  /\ IF call[c].join <= Len(workers)
       THEN /\ workers[call[c].join].pc = "exited"
            /\ call' = Upd(c, [call[c] EXCEPT !.join = @ + 1])
            /\ UNCHANGED <<pool, swe, ended>>
       ELSE /\ swe' = [swe EXCEPT !.closed = @ + 1]
            /\ pool' = "destroyed"
            /\ ended' = "exited"
            /\ call' = Finish(c, call[c], "returned")
  /\ UNCHANGED <<initVars, workers, tasks, queue_mutex, stop, promise, hw, swevid,
               v2Vars>>

\* ------------------------------------------------------------ specification
Next ==
  \/ \E c \in Callers, path \in Paths : initialize_swiss_ephemeris(c, path)
  \/ \E c \in Callers : call_once_enter(c)
  \/ \E c \in Callers : call_once_body(c)
  \/ \E c \in Callers : call_once_return(c)
  \/ \E c \in Sizers, path \in Paths, n \in ThreadCounts : initialize(c, path, n)
  \/ \E c \in Callers : instance(c)
  \/ \E c \in Callers : resize_lock(c)
  \/ \E c \in Callers : resize_join(c)
  \/ \E c \in Callers : resize_spawn(c)
  \/ \E w \in 1 .. Len(workers) : worker_start(w)
  \/ \E w \in 1 .. Len(workers) : worker_take(w)
  \/ \E w \in 1 .. Len(workers) : worker_run(w)
  \/ \E c \in Callers, batch \in Batches : compute_batch(c, batch)
  \/ \E c \in Callers : compute_batch_size(c)
  \/ \E c \in Callers : compute_batch_enqueue(c)
  \/ \E c \in Callers : compute_batch_merge(c)
  \/ \E c \in Tuners, n \in MaxThreadArgs : autotune_threads(c, n)
  \/ \E c \in Callers : autotune_enqueue(c)
  \/ \E c \in Callers : autotune_get(c)
  \/ \E c \in Callers : exit(c)
  \/ \E c \in Callers : destructor_stop(c)
  \/ \E c \in Callers : destructor_join(c)

Spec == Init /\ [][Next]_vars

\* A thread that has begun a call and can take its next step is scheduled
\* in the end, and so is a worker thread; no thread is obliged to begin a
\* call, and the main thread is not obliged to leave main().
CallerStep(c) ==
  \/ call_once_enter(c) \/ call_once_body(c) \/ call_once_return(c)
  \/ instance(c)
  \/ resize_lock(c) \/ resize_join(c) \/ resize_spawn(c)
  \/ compute_batch_size(c) \/ compute_batch_enqueue(c)
  \/ compute_batch_merge(c)
  \/ autotune_enqueue(c) \/ autotune_get(c)
  \/ destructor_stop(c) \/ destructor_join(c)

WorkerStep(w) == worker_start(w) \/ worker_take(w) \/ worker_run(w)

\* indices of ThreadPool::workers: no pool of the model is larger than two
WorkerIds == 1 .. 2

FairSpec ==
  /\ Spec
  /\ \A c \in Callers : WF_vars(CallerStep(c))
  /\ \A w \in WorkerIds : WF_vars(WorkerStep(w))

\* ------------------------------------------------- batches on a ready pool
\* The process once initialize("ephe", 2) has returned on a platform whose
\* hardware_concurrency() is 0 (the one where that call returns): the
\* routine is ready, the pool holds two workers, both blocked in
\* condition.wait on the empty queue.  From here the application threads
\* submit batches, and the main thread may leave main().
InitReady ==
  /\ hw = 0
  /\ init_flag = "set"
  /\ is_initialized = TRUE
  /\ ephe_path = "ephe"
  /\ bodyRuns = 1
  /\ pool = "alive"
  /\ workers = [w \in 1 .. 2 |-> [pc |-> "waiting", tid |-> w - 1, threw |-> 0,
                                  task |-> NoTask]]
  /\ tasks = <<>>
  /\ queue_mutex = "free"
  /\ stop = FALSE
  /\ promise = <<>>
  /\ call = [c \in Callers |-> IdleCall]
  /\ swe = [closed |-> 0, lateCalls |-> 0, unregistered |-> 1]
  /\ ended = "running"
  /\ swevid = NotLoaded
  /\ g_parabola_thread_count = 1
  /\ pools = [c \in Callers |-> NoPool]

\* the batches submitted to the ready pool: 15 requests, with and without
\* the invalid target
PairBatches == {MakeBatch(15), BadBatch}

NextBatch ==
  \/ \E c \in Callers, batch \in PairBatches : compute_batch(c, batch)
  \/ \E c \in Callers : instance(c)
  \/ \E c \in Callers : compute_batch_size(c)
  \/ \E c \in Callers : compute_batch_enqueue(c)
  \/ \E c \in Callers : compute_batch_merge(c)
  \/ \E w \in 1 .. Len(workers) : worker_take(w)
  \/ \E w \in 1 .. Len(workers) : worker_run(w)
  \/ \E c \in Callers : exit(c)
  \/ \E c \in Callers : destructor_stop(c)
  \/ \E c \in Callers : destructor_join(c)

SpecBatch == InitReady /\ [][NextBatch]_vars

\* ------------------------------------------------- the tuning executable
\* main(), lines 322-340: the main thread initialises the library, then
\* tunes, then leaves main().  No other thread calls the API.  The platform
\* reports 0, 1 or 2 hardware threads.
HardwareConcurrencyTune == {0, 1, 2}

InitTune ==
  /\ hw \in HardwareConcurrencyTune
  /\ init_flag = "clear"
  /\ is_initialized = FALSE
  /\ ephe_path = ""
  /\ pool = "none"
  /\ workers = <<>>
  /\ tasks = <<>>
  /\ queue_mutex = "free"
  /\ stop = FALSE
  /\ promise = <<>>
  /\ call = [c \in Callers |-> IdleCall]
  /\ swe = [closed |-> 0, lateCalls |-> 0, unregistered |-> 0]
  /\ bodyRuns = 0
  /\ ended = "running"
  /\ swevid = NotLoaded
  /\ g_parabola_thread_count = 1
  /\ pools = [c \in Callers |-> NoPool]

NextTune ==
  \/ \E path \in Paths : initialize_swiss_ephemeris(MainThread, path)
  \/ call_once_enter(MainThread)
  \/ call_once_body(MainThread)
  \/ call_once_return(MainThread)
  \/ \E n \in MaxThreadArgs : autotune_threads(MainThread, n)
  \/ instance(MainThread)
  \/ resize_lock(MainThread)
  \/ resize_join(MainThread)
  \/ resize_spawn(MainThread)
  \/ \E w \in 1 .. Len(workers) : worker_start(w)
  \/ \E w \in 1 .. Len(workers) : worker_take(w)
  \/ \E w \in 1 .. Len(workers) : worker_run(w)
  \/ autotune_enqueue(MainThread)
  \/ autotune_get(MainThread)
  \/ exit(MainThread)
  \/ destructor_stop(MainThread)
  \/ destructor_join(MainThread)

SpecTune == InitTune /\ [][NextTune]_vars

\* ------------------------------------------------- the selection, on its own
\* The thread counts the loop of line 191 goes through, up to 8.
TrialCounts == {1, 2, 3, 4, 8}

\* best_throughput values a trial can meet: ones that the measurable
\* throughputs beat by more than 5% (95, and 99 for 104 only), match within
\* 5%, or fall short of by more than 5% (110).
BestThroughputs == {95, 99, 100, 110}

\* The locals of autotune_threads at line 216 with every future of the
\* trial at thread count n got: in the first trial best_threads is 1 and
\* best_throughput 0; in a later one best_threads is a count tried before
\* and best_throughput what a trial measured.  The ceiling is n itself (the
\* last trial) or 16 (another follows).
TrialStates(n) ==
  LET before == {m \in TrialCounts : m < n}
      base == [IdleCall EXCEPT
                 !.op = "autotune_threads", !.pc = "at_get", !.calls = 2,
                 !.threads = n, !.k = 1, !.after = "at_resize",
                 !.trials = before \cup {n}]
  IN IF n = 1
       THEN {[base EXCEPT !.max_threads = m, !.best_threads = 1,
                          !.best_throughput = 0] : m \in {n, 16}}
       ELSE {[base EXCEPT !.max_threads = m, !.best_threads = b,
                          !.best_throughput = t] :
               m \in {n, 16}, b \in before, t \in BestThroughputs}

\* The main thread at the end of a trial of autotune_threads, the library
\* initialised and the pool as the trial's resize made it.
InitSelect ==
  /\ hw = 1
  /\ init_flag = "set"
  /\ is_initialized = TRUE
  /\ ephe_path = "ephe"
  /\ bodyRuns = 1
  /\ pool = "alive"
  /\ \E n \in TrialCounts :
       /\ workers = [w \in 1 .. n |-> [pc |-> "waiting", tid |-> w - 1,
                                       threw |-> 0, task |-> NoTask]]
       /\ \E r \in TrialStates(n) :
            call = [c \in Callers |-> IF c = MainThread THEN r ELSE IdleCall]
  /\ tasks = <<>>
  /\ queue_mutex = "free"
  /\ stop = FALSE
  /\ promise = <<>>
  /\ swe = [closed |-> 0, lateCalls |-> 0, unregistered |-> 1]
  /\ ended = "running"
  /\ swevid = NotLoaded
  /\ g_parabola_thread_count = 1
  /\ pools = [c \in Callers |-> NoPool]

NextSelect == \E c \in Callers : autotune_get(c)

SpecSelect == InitSelect /\ [][NextSelect]_vars

\* ============================================================ second variant
\* The second variant of the file (from line 341): compute_batch tunes on
\* every call, each trial and the batch itself run on a ThreadPool that is a
\* local of the function, and compute_batch calls swe_close() before it
\* returns.  It has no initialisation check and no resize.
v1Vars ==
  <<initVars, pool, workers, tasks, queue_mutex, stop, hw, swevid, ended>>

\* batch lengths for the second variant: empty, and three requests
BatchSizesV2 == {0, 3}
\* the second variant is called by one thread, one call after the other
CallersV2 == {MainThread}

\* lines 459 and 414-417: compute_batch begins with autotune_threads on the
\* batch's requests: best = 1, best_throughput = 0, trial = 1.
compute_batch_v2(c, n) ==
  /\ CanCall(c)
  /\ call' = Upd(c, [Begin(c, "compute_batch", "v2_pool") EXCEPT
                       !.batch = MakeBatch(n), !.after = "tune",
                       !.threads = 1, !.best_threads = 1,
                       !.best_throughput = 0])
  /\ UNCHANGED <<v1Vars, promise, swe, v2Vars>>

\* A thread of a local pool: it runs the loop of lines 366-376.
NewWorkerV2 == [pc |-> "lock", task |-> NoTask]

\* line 425 and line 464: std::max<size_t>(1, size / threads)
slice_size_v2(n, threads) == Max(1, n \div threads)

\* ThreadPool pool(trial) in a tuning trial (line 422, with line 425), and
\* ThreadPool pool(g_parabola_thread_count) for the batch (line 460, with
\* line 464): the constructor of lines 364-379 starts the workers.
ThreadPool_v2(c) ==
  /\ Running
  /\ call[c].pc = "v2_pool"
  /\ LET r == call[c]
         num_threads == IF r.after = "tune" THEN r.threads
                                             ELSE g_parabola_thread_count
         r2 == [r EXCEPT !.target = slice_size_v2(Len(r.batch), num_threads),
                         !.i = 0, !.k = 1, !.futures = <<>>]
     IN /\ pools' = [pools EXCEPT ![c] =
                       [workers |-> [w \in 1 .. num_threads |-> NewWorkerV2],
                        tasks |-> <<>>, stop |-> FALSE, alive |-> TRUE]]
        /\ call' = Upd(c, [r2 EXCEPT !.pc =
                             IF r2.i < Len(r2.batch) THEN "v2_enq" ELSE "v2_get"])
  /\ UNCHANGED <<v1Vars, promise, swe, g_parabola_thread_count>>

\* One turn of the slicing loop with its call of enqueue (lines 381-392),
\* in a trial (lines 426-435) and for the batch (lines 466-481).  A tuning
\* task computes its requests and returns nothing.
enqueue_v2(c) ==
  /\ Running
  /\ call[c].pc = "v2_enq"
  /\ LET r == call[c]
         end == Min(Len(r.batch), r.i + r.target)
         id == Len(promise) + 1
         t == IF r.after = "tune"
                THEN [NewPromise(c, <<>>, TRUE) EXCEPT !.lo = r.i, !.hi = end]
                ELSE NewPromise(c, SubSeq(r.batch, r.i + 1, end), TRUE)
         r2 == [r EXCEPT !.futures = Append(@, id), !.i = end]
     IN /\ promise' = Append(promise, t)
        /\ \E ws \in notify_one(pools[c].workers) :
             pools' = [pools EXCEPT ![c].tasks = Append(@, id),
                                    ![c].workers = ws]
        /\ call' = Upd(c, [r2 EXCEPT !.pc =
                             IF r2.i < Len(r2.batch) THEN "v2_enq" ELSE "v2_get"])
  /\ UNCHANGED <<v1Vars, swe, g_parabola_thread_count>>

\* The throughputs a trial can measure: none above zero for an empty batch.
ThroughputsV2(n) == IF n = 0 THEN {0} ELSE Throughputs

\* Lines 437-449, a trial: get every future, measure, then either go on to
\* the next trial or break; either way the trial's pool is destroyed on the
\* way out of the try block.  Lines 483-488, the batch: get every future in
\* submission order and append its results to merged.
get_v2(c) ==
  /\ Running
  /\ call[c].pc = "v2_get"
  /\ LET r == call[c]
     IN IF r.k <= Len(r.futures)
          THEN /\ promise[r.futures[r.k]].ready
               /\ call' = Upd(c, [r EXCEPT
                             !.merged = merge_insert(@, promise[r.futures[r.k]].value),
                             !.k = @ + 1])
          ELSE IF r.after = "tune"
            THEN \E throughput \in ThroughputsV2(Len(r.batch)) :
                   IF throughput > r.best_throughput
                     THEN call' = Upd(c, [r EXCEPT
                                     !.best_throughput = throughput,
                                     !.best_threads = r.threads,
                                     !.threads = @ + 1,
                                     !.pc = "v2_dt_stop", !.ret = "v2_pool"])
                     ELSE call' = Upd(c, [r EXCEPT !.pc = "v2_dt_stop",
                                                   !.ret = "v2_set"])
            ELSE call' = Upd(c, [r EXCEPT !.pc = "v2_close"])
  /\ UNCHANGED <<v1Vars, promise, swe, v2Vars>>

\* line 459: g_parabola_thread_count = the value autotune_threads returned
set_thread_count_v2(c) ==
  /\ Running
  /\ call[c].pc = "v2_set"
  /\ g_parabola_thread_count' = call[c].best_threads
  /\ call' = Upd(c, [call[c] EXCEPT !.pc = "v2_pool", !.after = "batch"])
  /\ UNCHANGED <<v1Vars, promise, swe, pools>>

\* line 488: swe_close(), with the batch's pool still alive
swe_close_v2(c) ==
  /\ Running
  /\ call[c].pc = "v2_close"
  /\ swe' = [swe EXCEPT !.closed = @ + 1]
  /\ call' = Upd(c, [call[c] EXCEPT !.pc = "v2_dt_stop", !.ret = "return"])
  /\ UNCHANGED <<v1Vars, promise, v2Vars>>

\* ~ThreadPool, lines 394-399: stop under the mutex, notify_all.
destructor_stop_v2(c) ==
  /\ Running
  /\ call[c].pc = "v2_dt_stop"
  /\ pools' = [pools EXCEPT ![c].stop = TRUE,
                            ![c].workers = notify_all(@)]
  /\ call' = Upd(c, [call[c] EXCEPT !.pc = "v2_dt_join"])
  /\ UNCHANGED <<v1Vars, promise, swe, g_parabola_thread_count>>

\* ~ThreadPool, lines 400-401: join every worker; then the function goes on
\* (next trial, or line 459) or returns merged (line 489).
destructor_join_v2(c) ==
  /\ Running
  /\ call[c].pc = "v2_dt_join"
  /\ \A w \in DOMAIN pools[c].workers : pools[c].workers[w].pc = "exited"
  /\ pools' = [pools EXCEPT ![c] = NoPool]
  /\ IF call[c].ret = "return"
       THEN call' = Return(c, call[c], call[c].merged)
       ELSE call' = Upd(c, [call[c] EXCEPT !.pc = call[c].ret])
  /\ UNCHANGED <<v1Vars, promise, swe, g_parabola_thread_count>>

\* The worker's loop, lines 368-374, under the pool's mutex.
worker_take_v2(c, w) ==
  /\ Running
  /\ w \in DOMAIN pools[c].workers
  /\ pools[c].workers[w].pc \in {"lock", "woken"}
  /\ LET p == pools[c]
     IN IF ~(p.stop \/ p.tasks # <<>>)
          THEN pools' = [pools EXCEPT ![c].workers[w].pc = "waiting"]
          ELSE IF p.stop /\ p.tasks = <<>>
            THEN pools' = [pools EXCEPT ![c].workers[w].pc = "exited"]
            ELSE pools' = [pools EXCEPT ![c].workers[w].pc = "run",
                                        ![c].workers[w].task = Head(p.tasks),
                                        ![c].tasks = Tail(p.tasks)]
  /\ UNCHANGED <<v1Vars, promise, call, swe, g_parabola_thread_count>>

\* line 375: task(), outside the mutex: the swe_calc_ut calls of the slice.
worker_run_v2(c, w) ==
  /\ Running
  /\ w \in DOMAIN pools[c].workers
  /\ pools[c].workers[w].pc = "run"
  /\ LET t == pools[c].workers[w].task
     IN promise' = [promise EXCEPT ![t] =
                      [@ EXCEPT !.ready = TRUE, !.runs = @ + 1,
                                !.value = SliceResults(promise[t].slice)]]
  /\ pools' = [pools EXCEPT ![c].workers[w].pc = "lock",
                            ![c].workers[w].task = NoTask]
  /\ swe' = routine_called(FALSE)
  /\ UNCHANGED <<v1Vars, call, g_parabola_thread_count>>

\* a local pool never has more workers than trials can be won, plus one
WorkerIdsV2 == 1 .. (Cardinality(Throughputs) + 1)

NextV2 ==
  \/ \E c \in CallersV2, n \in BatchSizesV2 : compute_batch_v2(c, n)
  \/ \E c \in Callers : ThreadPool_v2(c)
  \/ \E c \in Callers : enqueue_v2(c)
  \/ \E c \in Callers : get_v2(c)
  \/ \E c \in Callers : set_thread_count_v2(c)
  \/ \E c \in Callers : swe_close_v2(c)
  \/ \E c \in Callers : destructor_stop_v2(c)
  \/ \E c \in Callers : destructor_join_v2(c)
  \/ \E c \in Callers, w \in WorkerIdsV2 : worker_take_v2(c, w)
  \/ \E c \in Callers, w \in WorkerIdsV2 : worker_run_v2(c, w)

\* the second variant never asks for hardware_concurrency()
InitV2 == Init /\ hw = 1

SpecV2 == InitV2 /\ [][NextV2]_vars

\* ================================================== parabola_wrapper.h
\* parabola<T, R>(items, func): a ParabolaThreadPool that is a local of the
\* call, one task per item, the results collected in submission order.
\* The pool of thread c's call is pools[c]; items are integers and func is
\* a function of one item that returns.
func(item) == 2 * item + 1

\* the item lists parabola is called with
ItemLists == {<<>>, <<4>>, <<3, 1, 2>>}

\* values of the global g_parabola_thread_count (line 13; the application
\* can assign it) when parabola is called
ParabolaThreadCounts == {0, 1, 2}

\* parabola is called by one thread, one call after the other
CallersP == {MainThread}

\* lines 66-67: parabola is entered with its item list.
parabola(c, items) ==
  /\ CanCall(c)
  /\ call' = Upd(c, [Begin(c, "parabola", "p_pool") EXCEPT !.batch = items])
  /\ UNCHANGED <<v1Vars, promise, swe, v2Vars>>

\* A thread of a ParabolaThreadPool: it runs the loop of lines 20-30.
NewWorkerP == [pc |-> "lock", task |-> NoTask]

\* line 68 with the constructor of lines 17-33: g_parabola_thread_count
\* threads are started.
ParabolaThreadPool(c) ==
  /\ Running
  /\ call[c].pc = "p_pool"
  /\ pools' = [pools EXCEPT ![c] =
                 [workers |-> [w \in 1 .. g_parabola_thread_count |-> NewWorkerP],
                  tasks |-> <<>>, stop |-> FALSE, alive |-> TRUE]]
  /\ call' = Upd(c, [call[c] EXCEPT !.i = 0, !.k = 1, !.futures = <<>>,
                       !.pc = IF Len(call[c].batch) > 0 THEN "p_submit"
                                                       ELSE "p_get"])
  /\ UNCHANGED <<v1Vars, promise, swe, g_parabola_thread_count>>

\* lines 70-71 with submit (lines 35-46): the next item's task is queued
\* under the pool's mutex, one blocked worker is notified, the future kept.
submit(c) ==
  /\ Running
  /\ call[c].pc = "p_submit"
  /\ LET r == call[c]
         id == Len(promise) + 1
         r2 == [r EXCEPT !.futures = Append(@, id), !.i = @ + 1]
     IN /\ promise' = Append(promise,
                             NewPromise(c, <<r.batch[r.i + 1]>>, TRUE))
        /\ \E ws \in notify_one(pools[c].workers) :
             pools' = [pools EXCEPT ![c].tasks = Append(@, id),
                                    ![c].workers = ws]
        /\ call' = Upd(c, [r2 EXCEPT !.pc =
                             IF r2.i < Len(r2.batch) THEN "p_submit"
                                                     ELSE "p_get"])
  /\ UNCHANGED <<v1Vars, swe, g_parabola_thread_count>>

\* mutant: each result put in front of those collected so far
results_push_front(results, v) == <<v>> \o results

\* line 76: results.push_back(f.get())
results_push_back(results, v) == Append(results, v)

\* lines 73-77: get every future in submission order; then return results,
\* which first destroys the local pool.
parabola_get(c) ==
  /\ Running
  /\ call[c].pc = "p_get"
  /\ LET r == call[c]
     IN IF r.k <= Len(r.futures)
          THEN /\ promise[r.futures[r.k]].ready
               /\ call' = Upd(c, [r EXCEPT
                             !.merged = results_push_back(@,
                                          promise[r.futures[r.k]].value[1]),
                             !.k = @ + 1])
          ELSE call' = Upd(c, [r EXCEPT !.pc = "p_dt_stop"])
  /\ UNCHANGED <<v1Vars, promise, swe, v2Vars>>

\* ~ParabolaThreadPool, lines 49-54: stop under the mutex, notify_all.
destructor_stop_p(c) ==
  /\ Running
  /\ call[c].pc = "p_dt_stop"
  /\ pools' = [pools EXCEPT ![c].stop = TRUE,
                            ![c].workers = notify_all(@)]
  /\ call' = Upd(c, [call[c] EXCEPT !.pc = "p_dt_join", !.join = 1])
  /\ UNCHANGED <<v1Vars, promise, swe, g_parabola_thread_count>>

\* line 55: t.join() returns once that thread has left its loop.
joined_p(c, w) == pools[c].workers[w].pc = "exited"

\* ~ParabolaThreadPool, line 55: join the workers one after the other; the
\* pool is gone then and parabola returns results.
destructor_join_p(c) ==
  /\ Running
  /\ call[c].pc = "p_dt_join"
  /\ IF call[c].join <= Len(pools[c].workers)
       THEN /\ joined_p(c, call[c].join)
            /\ call' = Upd(c, [call[c] EXCEPT !.join = @ + 1])
            /\ UNCHANGED pools
       ELSE /\ pools' = [pools EXCEPT ![c].alive = FALSE]
            /\ call' = Return(c, call[c], call[c].merged)
  /\ UNCHANGED <<v1Vars, promise, swe, g_parabola_thread_count>>

\* The worker's loop, lines 22-28, under the pool's mutex.
worker_take_p(c, w) ==
  /\ Running
  /\ w \in DOMAIN pools[c].workers
  /\ pools[c].workers[w].pc \in {"lock", "woken"}
  /\ LET p == pools[c]
     IN IF ~(p.stop \/ p.tasks # <<>>)
          THEN pools' = [pools EXCEPT ![c].workers[w].pc = "waiting"]
          ELSE IF p.stop /\ p.tasks = <<>>
            THEN pools' = [pools EXCEPT ![c].workers[w].pc = "exited"]
            ELSE pools' = [pools EXCEPT ![c].workers[w].pc = "run",
                                        ![c].workers[w].task = Head(p.tasks),
                                        ![c].tasks = Tail(p.tasks)]
  /\ UNCHANGED <<v1Vars, promise, call, swe, g_parabola_thread_count>>

\* line 29: task(), outside the mutex: func(item) becomes the future's value.
worker_run_p(c, w) ==
  /\ Running
  /\ w \in DOMAIN pools[c].workers
  /\ pools[c].workers[w].pc = "run"
  /\ LET t == pools[c].workers[w].task
     IN promise' = [promise EXCEPT ![t] =
                      [@ EXCEPT !.ready = TRUE, !.runs = @ + 1,
                                !.value = <<func(promise[t].slice[1])>>]]
  /\ pools' = [pools EXCEPT ![c].workers[w].pc = "lock",
                            ![c].workers[w].task = NoTask]
  /\ UNCHANGED <<v1Vars, call, swe, g_parabola_thread_count>>

\* indices of the workers of a ParabolaThreadPool
WorkerIdsP == 1 .. 2

\* The process when parabola is called: statics as constructed, the global
\* holding one of its values.
InitP ==
  /\ hw = 1
  /\ init_flag = "clear"
  /\ is_initialized = FALSE
  /\ ephe_path = ""
  /\ pool = "none"
  /\ workers = <<>>
  /\ tasks = <<>>
  /\ queue_mutex = "free"
  /\ stop = FALSE
  /\ promise = <<>>
  /\ call = [c \in Callers |-> IdleCall]
  /\ swe = [closed |-> 0, lateCalls |-> 0, unregistered |-> 0]
  /\ bodyRuns = 0
  /\ ended = "running"
  /\ swevid = NotLoaded
  /\ g_parabola_thread_count \in ParabolaThreadCounts
  /\ pools = [c \in Callers |-> NoPool]

CallerStepP(c) ==
  \/ ParabolaThreadPool(c) \/ submit(c) \/ parabola_get(c)
  \/ destructor_stop_p(c) \/ destructor_join_p(c)

WorkerStepP(c, w) == worker_take_p(c, w) \/ worker_run_p(c, w)

NextP ==
  \/ \E c \in CallersP, items \in ItemLists : parabola(c, items)
  \/ \E c \in CallersP : ParabolaThreadPool(c)
  \/ \E c \in CallersP : submit(c)
  \/ \E c \in CallersP : parabola_get(c)
  \/ \E c \in CallersP : destructor_stop_p(c)
  \/ \E c \in CallersP : destructor_join_p(c)
  \/ \E c \in CallersP, w \in WorkerIdsP : worker_take_p(c, w)
  \/ \E c \in CallersP, w \in WorkerIdsP : worker_run_p(c, w)

SpecP == InitP /\ [][NextP]_vars

\* A thread inside parabola is scheduled in the end, and so is each worker
\* of its pool; no thread is obliged to call parabola.
FairSpecP ==
  /\ SpecP
  /\ \A c \in CallersP : WF_vars(CallerStepP(c))
  /\ \A c \in CallersP, w \in WorkerIdsP : WF_vars(WorkerStepP(c, w))

\* ==================================================== swevid_loader.cpp
\* everything but the loader's state
notLoaderVars ==
  <<hw, initVars, poolVars, call, swe, ended, v2Vars>>

\* the values of an int, and the number of values of a size_t
Ints == -(2 ^ (IntBits - 1)) .. (2 ^ (IntBits - 1) - 1)
SizeModulus == 2 ^ SizeBits

\* static_cast<size_t>(x) of an int x, lines 54-55: a negative value wraps.
to_size_t(x) == x % SizeModulus

\* uoffset + ulength at line 56: unsigned addition, modulo the width.
size_add(a, b) == (a + b) % SizeModulus

\* The files load_swevid is pointed at: their size in bytes, -1 for a path
\* that cannot be opened.
FileSizes == {-1, 0, 5}

\* What mmap does at line 28: it maps the file, or fails (always for a
\* length of 0).
mmap(bytes) == IF bytes = 0 THEN {"MAP_FAILED"} ELSE {"mapped", "MAP_FAILED"}

\* load_swevid, lines 13-38: a file that cannot be opened leaves the
\* globals as they were; else swevid_size is the file's size and
\* swevid_data the mapping, or nullptr when mmap failed.  The record of the
\* last read, which was of the data loaded before, is dropped.
load_swevid(bytes) ==
  /\ Running
  /\ IF bytes < 0
       THEN UNCHANGED swevid
       ELSE \E m \in mmap(bytes) :
              swevid' = [NotLoaded EXCEPT
                           !.size = bytes,
                           !.data = IF m = "mapped" THEN "mapped" ELSE "nullptr"]
  /\ UNCHANGED notLoaderVars

\* file names, as character sequences
Extension == <<".", "s", "w", "e", "v", "i", "d">>
FileNames ==
  { <<"a">> \o Extension,
    <<"s", "w", "e", "v", "i", "d">>,
    <<"s", "e", "p", "l", ".", "s", "e", "1">> }

\* lines 49-52: the name is at least 7 long and ends in ".swevid"
has_extension(fname) ==
  /\ Len(fname) >= 7
  /\ SubSeq(fname, Len(fname) - 6, Len(fname)) = Extension

\* line 56: uoffset + ulength > swevid_size
exceeds_size(uoffset, ulength) == size_add(uoffset, ulength) > swevid.size

\* What memcpy at line 60 can do with count bytes from swevid_data + first:
\* inside the mapping it copies them; outside it the behaviour is undefined,
\* and the build either copies whatever lies there or faults.
memcpy(first, count) ==
  IF first + count <= swevid.size THEN {"copied"} ELSE {"copied", "fault"}

\* read_swe_file, lines 41-61.
read_swe_file(fname, offset, length) ==
  /\ Running
  /\ LET called == [swevid EXCEPT !.called = TRUE, !.offset = offset,
                                  !.length = length, !.ret = 0,
                                  !.copied = <<>>]
         uoffset == to_size_t(offset)
         ulength == to_size_t(length)
     IN IF swevid.data = "nullptr" \/ ~has_extension(fname)
          THEN /\ swevid' = [called EXCEPT !.ret = -1]
               /\ UNCHANGED ended
          ELSE IF exceeds_size(uoffset, ulength)
            THEN /\ swevid' = [called EXCEPT !.ret = -2]
                 /\ UNCHANGED ended
            ELSE \E done \in memcpy(uoffset, ulength) :
                   IF done = "copied"
                     THEN /\ swevid' = [called EXCEPT
                                          !.ret = 0,
                                          !.copied = <<uoffset, ulength>>]
                          /\ UNCHANGED ended
                     ELSE /\ swevid' = called
                          /\ ended' = "crashed"
  /\ UNCHANGED <<hw, initVars, poolVars, call, swe, v2Vars>>

\* The process before any file is loaded.
InitLoader ==
  /\ hw = 1
  /\ init_flag = "clear"
  /\ is_initialized = FALSE
  /\ ephe_path = ""
  /\ pool = "none"
  /\ workers = <<>>
  /\ tasks = <<>>
  /\ queue_mutex = "free"
  /\ stop = FALSE
  /\ promise = <<>>
  /\ call = [c \in Callers |-> IdleCall]
  /\ swe = [closed |-> 0, lateCalls |-> 0, unregistered |-> 0]
  /\ bodyRuns = 0
  /\ ended = "running"
  /\ swevid = NotLoaded
  /\ g_parabola_thread_count = 1
  /\ pools = [c \in Callers |-> NoPool]

NextLoader ==
  \/ \E bytes \in FileSizes : load_swevid(bytes)
  \/ \E fname \in FileNames, offset \in Ints, length \in Ints :
       read_swe_file(fname, offset, length)

SpecLoader == InitLoader /\ [][NextLoader]_vars

\* ================================================================== claims
Clamp(x, lo, hi) == IF x < lo THEN lo ELSE IF x > hi THEN hi ELSE x

Returned(c) == call[c].op = "compute_batch" /\ call[c].outcome = "returned"

\* the packaged_tasks that thread c's running compute_batch has submitted
Submitted(c) == [j \in 1 .. Len(call[c].futures) |-> promise[call[c].futures[j]]]

\* C1: whenever compute_batch has returned, it has returned exactly one
\* result per request of the batch, and the i-th result carries the ipl of
\* the i-th request, whatever the pool size, the slice boundaries and the
\* order in which the workers took and finished the slices.
C1_OrderPreserved ==
  \A c \in Callers :
    Returned(c) =>
      /\ Len(call[c].result) = Len(call[c].batch)
      /\ \A i \in 1 .. Len(call[c].batch) :
           call[c].result[i].ipl = call[c].batch[i].ipl

\* C1 witness: a batch of 101 requests, cut into three slices for a pool of
\* two workers, has been returned.
C1_Witness ==
  \E c \in Callers :
    /\ Returned(c)
    /\ Len(call[c].result) = 101
    /\ Len(workers) = 2
    /\ Len(promise) = 3

\* C4: compute_batch never returns a list of another length than the
\* batch: once it has got every future, it leaves the count check either by
\* returning merged, and then merged has as many results as the batch has
\* requests, or by raising "Result count mismatch", and then it returns
\* nothing.
C4_CountChecked ==
  [][\A c \in Callers :
       (call[c].pc = "cb_merge" /\ call'[c].pc = "idle") =>
          /\ call'[c].outcome = "returned" =>
               Len(call'[c].result) = Len(call[c].batch)
          /\ call[c].k > Len(call[c].futures) =>
               \/ /\ Len(call[c].merged) = Len(call[c].batch)
                  /\ call'[c].outcome = "returned"
                  /\ call'[c].result = call[c].merged
               \/ /\ Len(call[c].merged) # Len(call[c].batch)
                  /\ call'[c].outcome = "Result count mismatch"
                  /\ call'[c].result = <<>>]_vars

\* C4 witness: a batch of 15 requests merged from two slices has passed the
\* count check and been returned.
C4_Witness ==
  \E c \in Callers :
    /\ Returned(c)
    /\ Len(call[c].result) = 15
    /\ Len(promise) = 2

\* C5: with T = clamp(N / poolSize, 10, 100) for the pool size read (>= 1),
\* the j-th slice compute_batch submits is requests (j-1)*T+1 .. min(N, j*T)
\* of the batch, so the slices are contiguous, disjoint, of size T but
\* possibly the last, and submitted in increasing index order; once the
\* loop is over their concatenation is the batch.
C5_Slicing ==
  \A c \in Callers :
    call[c].pc \in {"cb_loop", "cb_merge"} =>
      LET N == Len(call[c].batch)
          T == IF call[c].size >= 1
                 THEN Clamp(N \div call[c].size, 10, 100)
                 ELSE call[c].target
          m == Len(call[c].futures)
      IN /\ call[c].target = T
         /\ \A j \in 1 .. m :
              /\ (j - 1) * T < N
              /\ Submitted(c)[j].slice =
                   SubSeq(call[c].batch, (j - 1) * T + 1,
                          IF j * T < N THEN j * T ELSE N)
              /\ j > 1 => call[c].futures[j - 1] < call[c].futures[j]
         /\ call[c].pc = "cb_merge" => m * T >= N

\* C5 witness: a batch of 15 for a pool of two (15 / 2 = 7, clamped to 10)
\* has been submitted as a slice of 10 and a slice of 5.
C5_Witness ==
  \E c \in Callers :
    /\ call[c].pc = "cb_merge"
    /\ call[c].size = 2
    /\ Len(call[c].batch) = 15
    /\ Len(call[c].futures) = 2
    /\ Len(Submitted(c)[1].slice) = 10
    /\ Len(Submitted(c)[2].slice) = 5

\* C7: an enqueue that finds the pool stopped ends the caller's call in the
\* same step with "Enqueue on stopped ThreadPool" and leaves the queue as it
\* was; the task it was given is never in the queue, never held by a worker
\* and never run.
C7_RejectedWhenStopped ==
  /\ [](\A id \in DOMAIN promise :
          ~promise[id].accepted =>
             /\ promise[id].runs = 0
             /\ ~promise[id].ready
             /\ \A k \in DOMAIN tasks : tasks[k] # id
             /\ \A w \in DOMAIN workers : workers[w].task # id)
  /\ [][\A c \in Callers :
          (call[c].pc = "cb_loop" /\ stop /\ call'[c] # call[c]) =>
             /\ call'[c].pc = "idle"
             /\ call'[c].outcome = "Enqueue on stopped ThreadPool"
             /\ tasks' = tasks]_vars

\* C7 witness: a compute_batch was cut short by a rejected enqueue while the
\* destructor had the pool stopped.
C7_Witness ==
  \E c \in Callers :
    /\ call[c].outcome = "Enqueue on stopped ThreadPool"
    /\ stop
    /\ \E id \in DOMAIN promise : ~promise[id].accepted /\ promise[id].owner = c

\* C10: the pool, its workers, the queue and the packaged tasks exist only
\* once initialisation has succeeded.  A failed validation probe raises
\* "Ephemeris initialization failed" and leaves is_initialized false and the
\* pool untouched; compute_batch or autotune_threads called before the
\* routine is ready raises "Swiss Ephemeris not initialized" in the same
\* step, without creating the pool or queueing anything.
C10_NothingBeforeReady ==
  /\ [](\/ is_initialized
        \/ /\ pool = "none"
           /\ workers = <<>>
           /\ tasks = <<>>
           /\ promise = <<>>)
  /\ [][\A c \in Callers :
          /\ (call[c].pc = "body" /\ ~ProbeOk(call[c].path)
                /\ call'[c] # call[c]) =>
                /\ call'[c].pc = "idle"
                /\ call'[c].outcome = "Ephemeris initialization failed"
                /\ ~is_initialized'
                /\ poolVars' = poolVars
          /\ (call[c].pc = "idle" /\ ~is_initialized
                /\ call'[c].op \in {"compute_batch", "autotune_threads"}
                /\ call'[c].calls = call[c].calls + 1) =>
                /\ call'[c].pc = "idle"
                /\ call'[c].outcome = "Swiss Ephemeris not initialized"
                /\ poolVars' = poolVars]_vars

\* C10 witness: the probe has failed for the path "missing", and a call made
\* after it was turned away as not initialised, with no pool created.
C10_Witness ==
  /\ ephe_path = "missing"
  /\ ~is_initialized
  /\ pool = "none"
  /\ \E c \in Callers :
       /\ call[c].op \in {"compute_batch", "autotune_threads"}
       /\ call[c].outcome = "Swiss Ephemeris not initialized"
  /\ \E c \in Callers :
       call[c].outcome = "Ephemeris initialization failed"

\* C9: the body of the call_once in initialize_swiss_ephemeris is entered
\* at most once in the life of the process, whatever the outcome of the
\* validation probe and however many callers race.
C9_BodyOnce == bodyRuns <= 1

\* the process is gone: it has exited or crashed
Gone == ended # "running"

\* accepted tasks still queued or running
MidFlight == tasks # <<>> \/ \E w \in DOMAIN workers : workers[w].pc = "run"

AllAcceptedRunOnce ==
  \A id \in DOMAIN promise : promise[id].accepted => promise[id].runs = 1

\* C2: when initialize calls resize on the live pool while accepted tasks
\* are still queued or running, then (unless the process ends first) resize
\* returns, and every accepted task gets run, exactly once.
C2_ResizeMidFlight ==
  \A c \in Callers :
    LET called == /\ call[c].pc = "rs_lock" /\ call[c].ret = "return"
                  /\ pool = "alive" /\ MidFlight
    IN /\ called ~> (Gone \/ call[c].pc = "idle")
       /\ called ~> (Gone \/ AllAcceptedRunOnce)

\* C3: in a process not yet initialised, a call of initialize with a path
\* whose probe succeeds returns normally (unless the process ends first);
\* the compute_batch of the scenario can only follow that return.
C3_InitializeReturns ==
  \A c \in Callers :
    (/\ call[c].op = "initialize" /\ call[c].pc = "once"
     /\ ProbeOk(call[c].path) /\ bodyRuns = 0)
      ~> (Gone \/ (call[c].pc = "idle" /\ call[c].outcome = "returned"))

\* C6: no worker leaves worker_loop while the queue holds a task, and once
\* the destructor has set stop on a pool that has workers then (unless the
\* process crashes first) every worker exits, the joins complete, and every
\* accepted task has been run.
C6_StopDrains ==
  /\ [][\A w \in DOMAIN workers :
          (w \in DOMAIN workers' /\ workers[w].pc # "exited"
             /\ workers'[w].pc = "exited") => tasks = <<>>]_vars
  /\ (call[MainThread].pc = "dt_join" /\ stop /\ workers # <<>>)
       ~> (ended = "crashed" \/ (pool = "destroyed" /\ AllAcceptedRunOnce))

\* C8: swe_close() is called at most once in the life of the process, and
\* only when every worker thread of every pool has been joined; no worker
\* makes a compute call after a close.
C8_CloseOnceAfterJoin ==
  /\ swe.closed <= 1
  /\ swe.lateCalls = 0
  /\ swe.closed > 0 =>
       /\ \A w \in DOMAIN workers : workers[w].pc = "exited"
       /\ \A c \in Callers : \A w \in DOMAIN pools[c].workers :
            pools[c].workers[w].pc = "exited"

\* a call of compute_batch by thread c is over
Ended(c) == call[c].op = "compute_batch" /\ call[c].pc = "idle"

\* C11: a compute_batch that is over has either returned, and then with one
\* result for every request of the batch, or raised (a slice task threw,
\* enqueue rejected a slice, the count check failed, the routine was not
\* initialised), and then it has handed back no result at all.
C11_NoPartialResults ==
  \A c \in Callers :
    Ended(c) =>
      IF call[c].outcome = "returned"
        THEN Len(call[c].result) = Len(call[c].batch)
        ELSE call[c].result = <<>>

\* C11 witness: a compute_batch raised what its second slice task threw,
\* after the first slice had delivered its ten results.
C11_Witness ==
  \E c \in Callers :
    /\ Ended(c)
    /\ call[c].outcome = "std::bad_alloc"
    /\ \E a, b \in DOMAIN promise :
         /\ a < b
         /\ promise[a].owner = c /\ promise[b].owner = c
         /\ promise[a].ready /\ ~promise[a].raised
         /\ Len(promise[a].value) = 10
         /\ promise[b].raised

\* C12: a request the routine rejects fails neither its slice nor the batch.
\* A slice task that has returned has returned one result per request of
\* its slice, each with the request's target and its own return code; no
\* compute_batch ends in a count mismatch; and a compute_batch that has
\* returned has returned, item by item, the request's target and return
\* code, negative for the rejected request only.
C12_PerItemIsolation ==
  /\ \A id \in DOMAIN promise :
       (promise[id].ready /\ ~promise[id].raised) =>
          /\ Len(promise[id].value) = Len(promise[id].slice)
          /\ \A j \in DOMAIN promise[id].slice :
               /\ promise[id].value[j].ipl = promise[id].slice[j].ipl
               /\ promise[id].value[j].errcode =
                    swe_calc_ut(promise[id].slice[j])
  /\ \A c \in Callers :
       /\ Ended(c) => call[c].outcome # "Result count mismatch"
       /\ Returned(c) =>
            /\ Len(call[c].result) = Len(call[c].batch)
            /\ \A i \in DOMAIN call[c].batch :
                 /\ call[c].result[i].ipl = call[c].batch[i].ipl
                 /\ call[c].result[i].errcode < 0
                      <=> call[c].batch[i].ipl = InvalidPlanet

\* C12 witness: the batch with the invalid 12th request has been returned
\* from two slices: 15 results, the 12th with a negative code, the others
\* with code 0.
C12_Witness ==
  \E c \in Callers :
    /\ Returned(c)
    /\ call[c].batch = BadBatch
    /\ Len(call[c].result) = 15
    /\ call[c].result[12].errcode < 0
    /\ \A i \in (1 .. 15) \ {12} : call[c].result[i].errcode = 0
    /\ \E a, b \in DOMAIN promise :
         a # b /\ promise[a].owner = c /\ promise[b].owner = c

\* C13: a call of autotune_threads that has returned has returned a count
\* of at least 1, which is 1 or a thread count whose trial it began,
\* whatever the ceiling (0 included), the throughputs measured and the
\* point at which a thread could not be created.
C13_NeverZero ==
  \A c \in Callers :
    (call[c].op = "autotune_threads" /\ call[c].pc = "idle"
       /\ call[c].outcome = "returned") =>
      /\ call[c].tuned >= 1
      /\ call[c].tuned = 1 \/ call[c].tuned \in call[c].trials

\* C13 witness: autotune_threads has returned from its first trial because
\* the thread of that trial could not be created: the pool is alive and
\* empty, and no tuning task was ever made.
C13_Witness ==
  \E c \in Callers :
    /\ call[c].op = "autotune_threads"
    /\ call[c].pc = "idle"
    /\ call[c].outcome = "returned"
    /\ call[c].trials = {1}
    /\ call[c].tuned = 1
    /\ pool = "alive"
    /\ workers = <<>>
    /\ promise = <<>>

\* C14: a thread inside a call of compute_batch is never in a tuning trial,
\* never in a resize other than the construction of the pool by its first
\* user, and never about to close the routine.
C14_NoTuningInBatch ==
  \A c \in Callers :
    (call[c].op = "compute_batch" /\ call[c].pc # "idle") =>
      /\ call[c].after # "tune"
      /\ call[c].pc \notin {"at_enq", "at_get", "v2_set", "v2_close"}
      /\ call[c].pc \in {"rs_lock", "rs_join", "rs_spawn"} =>
           call[c].ret = "constructed"

\* C15: with two compute_batch calls running on the same pool, every future
\* a call holds is that of a task it submitted itself, and a call that has
\* returned has returned the results of its own requests, in its own
\* request order: the list is exactly the one its batch determines.
C15_BatchesDoNotMix ==
  \A c \in Callers :
    /\ \A j \in DOMAIN call[c].futures :
         promise[call[c].futures[j]].owner = c
    /\ Returned(c) => call[c].result = SliceResults(call[c].batch)

\* C15 witness: both threads have had their batch returned, the two batches
\* differ, and their slices were queued interleaved.
C15_Witness ==
  /\ \A c \in Callers : Returned(c) /\ Len(call[c].result) = 15
  /\ call[MainThread].batch # call["other"].batch
  /\ \E a, b, d \in DOMAIN promise :
       /\ a < b /\ b < d
       /\ promise[a].owner = promise[d].owner
       /\ promise[a].owner # promise[b].owner

\* A worker thread that runs and has registered its index with the routine.
Live(w) == workers[w].pc # "exited" /\ workers[w].tid >= 0

\* C16: at every moment no two live workers hold the same registered
\* identity, and a step of resize keeps it so: the worker vector is emptied
\* only when every thread in it has left its loop, a thread is created only
\* by the spawn loop of a resize that has emptied the vector before, and a
\* thread registers the index it was created at.
C16_DistinctIdentities ==
  /\ [](\A v, w \in DOMAIN workers :
          v # w /\ Live(v) /\ Live(w) => workers[v].tid # workers[w].tid)
  /\ [][/\ workers # <<>> /\ workers' = <<>>
            => \A w \in DOMAIN workers : workers[w].pc = "exited"
        /\ Len(workers') > Len(workers)
            => /\ \E c \in Callers : call[c].pc = "rs_spawn"
               /\ workers' = Append(workers, NewWorker)
        /\ \A w \in DOMAIN workers :
             w \in DOMAIN workers' /\ workers[w].tid # workers'[w].tid
               => workers[w].tid = -1 /\ workers'[w].tid = w - 1]_vars

\* C16 witness: a resize has joined an old worker and is in its spawn loop,
\* and its two new workers run registered as 0 and 1.
C16_Witness ==
  /\ \E c \in Callers : call[c].pc = "rs_spawn" /\ call[c].join >= 2
  /\ Len(workers) = 2
  /\ Live(1) /\ workers[1].tid = 0
  /\ Live(2) /\ workers[2].tid = 1

\* C17: every call of the routine is made on a thread that has registered
\* its identity: the routine has seen no call from an unregistered thread,
\* and a worker past the first statement of its lambda holds the identity
\* it registered there, before its task loop.
C17_RegisteredBeforeCall ==
  /\ swe.unregistered = 0
  /\ \A w \in DOMAIN workers :
       workers[w].pc # "start" => workers[w].tid = w - 1

\* Thread c is in resize between its lock (stop set) and its return.
InResize(c) == call[c].pc \in {"rs_join", "rs_spawn"}

\* C18: a thread inside the join and spawn section of resize holds
\* queue_mutex, so no two threads are inside it together, and while a
\* thread is inside it no step adds a task to the queue.
C18_ResizeExclusive ==
  /\ [](\A c \in Callers : InResize(c) => queue_mutex = c)
  /\ [][(\E c \in Callers : InResize(c)) => Len(tasks') <= Len(tasks)]_vars

\* C18 witness: one thread is spawning the new workers of its resize (stop
\* lowered again) while the other stands in compute_batch with a slice to
\* submit, or at the lock of a resize of its own.
C18_Witness ==
  \E c, d \in Callers :
    /\ call[c].pc = "rs_spawn" /\ ~stop
    /\ call[d].pc \in {"cb_loop", "rs_lock"}
    /\ call[d].pc = "cb_loop" => call[d].i < Len(call[d].batch)

\* C19: the worker set is read only under queue_mutex: whenever
\* compute_batch reads the pool size, no other thread holds the mutex, and
\* in particular no resize is rebuilding the worker vector.
C19_SizeReadUnderMutex ==
  [][\A c \in Callers :
       compute_batch_size(c)
         => queue_mutex = "free" /\ \A d \in Callers : ~InResize(d)]_vars

\* The workers that hold task id, taken from the queue and not yet run.
Holders(id) == {w \in DOMAIN workers : workers[w].task = id}

\* The places of the queue where task id stands.
Queued(id) == {j \in DOMAIN tasks : tasks[j] = id}

\* C20: a task enqueue accepted is in exactly one place: in the queue once,
\* or held by one worker, or run once; a rejected task is nowhere.  The
\* queue holds the tasks in the order enqueue accepted them (their ids
\* rise), and every task a worker has taken was accepted before every task
\* still queued: tasks leave the queue first in, first out.
C20_ClaimedOnceInOrder ==
  /\ \A id \in DOMAIN promise :
       /\ promise[id].runs <= 1
       /\ Cardinality(Queued(id)) + Cardinality(Holders(id)) + promise[id].runs
            = IF promise[id].accepted THEN 1 ELSE 0
  /\ \A j, k \in DOMAIN tasks : j < k => tasks[j] < tasks[k]
  /\ \A id \in DOMAIN promise :
       promise[id].accepted /\ Queued(id) = {}
         => \A j \in DOMAIN tasks : id < tasks[j]

\* C20 witness: the two workers hold two different tasks, one of each
\* thread's batch, a task has been run already and another still waits in
\* the queue.
C20_Witness ==
  /\ Len(workers) = 2
  /\ workers[1].pc = "run" /\ workers[2].pc = "run"
  /\ workers[1].task # workers[2].task
  /\ promise[workers[1].task].owner # promise[workers[2].task].owner
  /\ \E id \in DOMAIN promise : promise[id].runs = 1
  /\ tasks # <<>>

\* C21: a task that threw has its failure in its future's shared state,
\* ready and with no value; the call that awaits that future ends by raising
\* it; and the worker that ran the task goes back to the head of its loop,
\* alive.
C21_FailureReachesHandle ==
  /\ [](\A id \in DOMAIN promise :
          promise[id].raised
            => promise[id].ready /\ promise[id].value = <<>>
                 /\ promise[id].runs = 1)
  /\ [][/\ \A w \in DOMAIN workers :
             workers[w].pc = "run" /\ w \in DOMAIN workers'
               /\ workers'[w].pc # "run"
               => workers'[w].pc = "lock"
        /\ \A c \in Callers :
             /\ call[c].pc = "cb_merge"
             /\ call[c].k <= Len(call[c].futures)
             /\ call'[c] # call[c]
             => IF promise[call[c].futures[call[c].k]].raised
                  THEN /\ call'[c].pc = "idle"
                       /\ call'[c].outcome = "std::bad_alloc"
                  ELSE call'[c].pc = "cb_merge"]_vars

\* C21 witness: a worker whose earlier task threw is running a task queued
\* after it, and the call that awaited the failed task has ended with the
\* task's exception.
C21_Witness ==
  /\ \E w \in DOMAIN workers :
       /\ workers[w].threw > 0
       /\ workers[w].pc = "run"
       /\ workers[w].task > workers[w].threw
  /\ \E c \in Callers : Ended(c) /\ call[c].outcome = "std::bad_alloc"

\* Thread c takes the step that ends a trial: every future got, the
\* throughput measured, the best updated (lines 216-231).
EndsTrial(c) ==
  /\ call[c].pc = "at_get"
  /\ call[c].k > Len(call[c].futures)
  /\ call'[c] # call[c]

\* The policy: from the locals b of the trial at b.threads and the
\* throughput t it measured, the best thread count and recorded throughput.
PolicyBest(b, t) ==
  IF t * 100 > b.best_throughput * 105 THEN <<b.threads, t>>
  ELSE IF b.threads > b.best_threads /\ t * 100 >= b.best_throughput * 95
    THEN <<b.threads, b.best_throughput>>
    ELSE <<b.best_threads, b.best_throughput>>

\* C22: a trial that measured more than 105% of the recorded best makes its
\* thread count the best and its throughput the recorded best; otherwise
\* one with more threads than the best and at least 95% of the recorded
\* best makes its thread count the best and leaves the recorded throughput;
\* any other trial leaves both.  When the trial was the last, what is
\* returned is the best by that policy for a throughput it can have
\* measured.
C22_SelectionPolicy ==
  [][\A c \in Callers :
       EndsTrial(c) =>
         IF call'[c].pc = "idle"
           THEN \E t \in Throughputs :
                  call'[c].tuned = PolicyBest(call[c], t)[1]
           ELSE <<call'[c].best_threads, call'[c].best_throughput>>
                  = PolicyBest(call[c], call'[c].throughput)]_vars

\* C22 witness: a trial with more threads than the best has measured a
\* throughput within 5% of the recorded best, a little above it, and has
\* become the best while the recorded throughput stayed.
C22_Witness ==
  \E c \in Callers :
    /\ call[c].op = "autotune_threads" /\ call[c].pc = "inst"
    /\ call[c].throughput = 104 /\ call[c].best_throughput = 100
    /\ call[c].best_threads = 3 /\ call[c].threads = 4

Tuned(c) ==
  /\ call[c].op = "autotune_threads" /\ call[c].pc = "idle"
  /\ call[c].outcome = "returned"

\* C24: a thread creation that fails while autotune_threads runs does not
\* end the process; and once autotune_threads has returned, its result is
\* 1 or the count of a trial it began, queue_mutex is free and stop is
\* clear.
C24_CreationFailureContained ==
  /\ ended # "crashed"
  /\ \A c \in Callers :
       Tuned(c) => /\ call[c].tuned \in call[c].trials \cup {1}
                   /\ queue_mutex = "free"
                   /\ ~stop

\* C25: once autotune_threads has returned t, the shared pool exists and
\* holds exactly t worker threads.
C25_PoolSizedToResult ==
  \A c \in Callers :
    Tuned(c) => pool = "alive" /\ Len(workers) = call[c].tuned

\* C26: whenever a thread stands at the division of line 255, every value
\* its read of the pool size can yield is at least 1, and no slice size in
\* use was worked out from a pool size of 0.
C26_PoolSizeAtLeastOne ==
  /\ \A c \in Callers : call[c].pc = "cb_size" => \A s \in size : s >= 1
  /\ \A c \in Callers :
       call[c].pc \in {"cb_loop", "cb_merge"} => call[c].size >= 1

\* The results parabola owes for an item list: func of each item, in order.
Mapped(items) == [j \in 1 .. Len(items) |-> func(items[j])]

\* Thread c is inside a call of parabola.
InParabola(c) == call[c].op = "parabola" /\ call[c].pc # "idle"

\* Thread c has had parabola return.
ParabolaReturned(c) ==
  call[c].op = "parabola" /\ call[c].pc = "idle"
    /\ call[c].outcome = "returned"

\* C27: with g_parabola_thread_count at least 1, a call of parabola queues
\* one task per item on a pool of that many workers, returns in the end,
\* and what it returns is func of each item in item order; when it has
\* returned every worker of its pool has left its loop and been joined.
C27_ParabolaMapsInOrder ==
  /\ [](\A c \in CallersP :
          /\ InParabola(c) /\ call[c].pc # "p_pool"
               => /\ Len(pools[c].workers) = g_parabola_thread_count
                  /\ Len(call[c].futures) = call[c].i
                  /\ \A j \in DOMAIN call[c].futures :
                       promise[call[c].futures[j]].slice
                         = <<call[c].batch[j]>>
          /\ ParabolaReturned(c)
               => /\ call[c].result = Mapped(call[c].batch)
                  /\ ~pools[c].alive
                  /\ \A w \in DOMAIN pools[c].workers :
                       pools[c].workers[w].pc = "exited")
  /\ \A c \in CallersP :
       (InParabola(c) /\ g_parabola_thread_count >= 1)
         ~> ParabolaReturned(c)

\* C27 witness: parabola has returned the three results of a three-item
\* list from a pool of two workers.
C27_Witness ==
  \E c \in CallersP :
    /\ ParabolaReturned(c)
    /\ Len(call[c].result) = 3
    /\ g_parabola_thread_count = 2
    /\ Len(pools[c].workers) = 2

\* The region offset, length lies inside the loaded data.
InsideData(offset, length) ==
  0 <= offset /\ 0 <= length /\ offset + length <= swevid.size

\* C28: read_swe_file has returned 0, or copied anything, or faulted, only
\* for a region inside the loaded data; for any other offset and length it
\* has returned an error code and copied nothing.
C28_ReadInsideData ==
  /\ swevid.called /\ swevid.ret = 0
       => InsideData(swevid.offset, swevid.length)
  /\ swevid.copied # <<>> => InsideData(swevid.offset, swevid.length)
  /\ ended # "crashed"

====
